---- MODULE Spec2Model ----
(***************************************************************************)
(* Real-time collaboration gateway of draw-togother-backend.               *)
(*                                                                         *)
(* The model follows src/src/websocket/whiteboard.gateway.ts handler by    *)
(* handler.  Every async handler is cut at its awaits: one action per      *)
(* run-to-completion segment, with the handler's position kept in a task   *)
(* record.  The transport (Socket.IO rooms, direct emits, broadcasts that  *)
(* skip the sender) is modelled by the operators below the state.          *)
(* The relayed draw_update carries a wall-clock timestamp in the source;   *)
(* no handler reads it, and it is left out of the message records.         *)
(***************************************************************************)
EXTENDS Integers, Sequences, FiniteSets, TLC

----------------------------------------------------------------------------
(* Bounds and the finite universe *)

MaxTasks == 2

MaxEvents == 3

Users == {"u1", "u2"}

Conns == {"c1", "c2", "c3", "c4"}

ConnOrder == <<"c1", "c2", "c3", "c4">>

Boards == {"b1"}

(* The handlers never look inside a payload: one value stands for them all *)
DrawPayloads == { [updateType |-> "rectangle", data |-> "shape1"] }

(* the users that create boards, and the invitations that are issued *)
Creators == {"u1"}

Invitable == {<<"b1", "u2">>}

(* the sockets that connect under Spec, and under SpecAuth *)
Known == {"c1", "c2", "c3"}

Mixed == {"c1", "c3", "c4"}

TaskIds == 1 .. MaxTasks

NoUser == "nouser"

NoPayload == [updateType |-> "-", data |-> "-"]

(* The user the handshake credential of a connection resolves to: c4 has   *)
(* no credential that resolves to a user.                                  *)
tokenUser(c) == IF c = "c4" THEN NoUser ELSE IF c = "c3" THEN "u2" ELSE "u1"

(* What a client may present in the handshake.  "none": no token in auth,  *)
(* query, cookie or header; "invalid": verifyAsync rejects (bad signature  *)
(* or expired); "orphan": the token verifies and findById finds no user.   *)
Credentials(c) ==
    IF tokenUser(c) = NoUser THEN {"none", "invalid", "orphan"} ELSE {"valid"}

----------------------------------------------------------------------------
VARIABLES
    whiteboards,    \* whiteboard table: board id -> owner id
    collaborators,  \* collaborator table: set of <<board, user>>
    live,           \* transport state of each socket: new, pending (connected,
                    \* handleConnection suspended in findById), live, closed
    dataUser,       \* client.data.user of each socket
    rooms,          \* adapter rooms each socket is registered in
    userRooms,      \* the gateway's userRooms map: user id -> set of board ids
    tasks,          \* handler invocations in flight, oldest event first
    out,            \* events delivered by the last step, in order
    sent,           \* number of client events emitted so far
    replay,         \* joins minus leaves of ReplayUser, in emission order
    handshake,      \* client.handshake of the socket whose token is extracted
    extracted       \* what each extractTokenFromHandshake returned for it

vars ==
    <<whiteboards, collaborators, live, dataUser, rooms,
      userRooms, tasks, out, sent, replay, handshake, extracted>>

----------------------------------------------------------------------------
(* Transport primitives *)

(* `whiteboard:${whiteboardId}` *)
roomName(b) == "whiteboard:" \o b

(* server.to(room) in place of client.to(room): the sender is not skipped *)
BroadcastTargets_WithSender(client, room) ==
    { d \in Conns : live[d] = "live" /\ room \in rooms[d] }

(* client.to(room): every connected socket of the room but the sender *)
BroadcastTargets(client, room) ==
    { d \in Conns : d # client /\ live[d] = "live" /\ room \in rooms[d] }

(* a set of sockets in the adapter's iteration order *)
InOrder(S) == SelectSeq(ConnOrder, LAMBDA d : d \in S)

(* client.to(room).emit(ev, body): one packet per target *)
Broadcast(client, room, body) ==
    LET tg == InOrder(BroadcastTargets(client, room))
    IN  [i \in 1 .. Len(tg) |-> [to |-> tg[i]] @@ body]

(* client.emit(ev, body): reaches the socket only while it is connected *)
Direct(client, body) ==
    IF live[client] = "live" THEN << [to |-> client] @@ body >> ELSE << >>

(* userRooms.has(u), and userRooms.get(u) read as a set *)
Has(u) == u \in DOMAIN userRooms

Members(u) == IF Has(u) THEN userRooms[u] ELSE {}

(* userRooms.set(u, S) and userRooms.delete(u) *)
MapSet(u, S) == [v \in DOMAIN userRooms \cup {u} |-> IF v = u THEN S ELSE userRooms[v]]

MapDelete(u) == [v \in DOMAIN userRooms \ {u} |-> userRooms[v]]

----------------------------------------------------------------------------
(* The identity whose join/leave sequence the replay ghost follows.  The   *)
(* sequence stays pure while it holds only joins of boards the identity    *)
(* owns (boards are never deleted, so that access cannot be lost) and      *)
(* leaves, and no socket of the identity has disconnected.                 *)
ReplayUser == "u1"

Owns(u, b) == b \in DOMAIN whiteboards /\ whiteboards[b] = u

Replayed(u, kind, b) ==
    IF u # ReplayUser THEN replay
    ELSE IF kind = "join" /\ Owns(u, b) THEN [replay EXCEPT !.set = @ \cup {b}]
    ELSE IF kind = "leave" THEN [replay EXCEPT !.set = @ \ {b}]
    ELSE [replay EXCEPT !.pure = FALSE]

----------------------------------------------------------------------------
(* Token extraction.  A string is the sequence of its characters.  A field *)
(* of the handshake is undefined, a string, or an object (the array of a   *)
(* query parameter that is given more than once).                          *)

Undefined == [type |-> "undefined", value |-> << >>]

String(s) == [type |-> "string", value |-> s]

Object(s) == [type |-> "object", value |-> s]

(* the truthiness of a field in an if condition *)
Truthy(x) == x.type = "object" \/ (x.type = "string" /\ x.value # << >>)

(* the literals 'token=' of the cookie pattern and 'Bearer ' of the header *)
TokenEq == <<"t", "o", "k", "e", "n", "=">>

Bearer == <<"B", "e", "a", "r", "e", "r", " ">>

(* handshake.auth.token: not sent, empty, or a token *)
AuthFields == {Undefined, String(<< >>), String(<<"A">>)}

(* handshake.query.token: not sent, empty, a token, or given twice *)
QueryParams == {Undefined, String(<< >>), String(<<"Q">>), Object(<<"Q">>)}

(* handshake.headers.cookie *)
CookieHeaders ==
    {Undefined,
     String(<<"t", "o", "k", "e", "n", "=", "C">>),
     String(<<"s", "=", "1">>),
     String(<<"s", "=", "1", ";", "t", "o", "k", "e", "n", "=", "C">>),
     String(<<"t", "o", "k", "e", "n", "=", ";", "s", "=", "1">>),
     String(<<"t", "o", "k", "e", "n", "=", "C", ";", "s", "=", "1">>)}

(* handshake.headers.authorization *)
AuthorizationHeaders ==
    {Undefined,
     String(<<"B", "e", "a", "r", "e", "r", " ", "B">>),
     String(<<"B", "a", "s", "i", "c", " ", "B">>),
     String(<<"B", "e", "a", "r", "e", "r", " ">>)}

Handshakes ==
    [auth : AuthFields, query : QueryParams, cookie : CookieHeaders,
     authorization : AuthorizationHeaders]

(* the handshake of a socket that sends none of the four sources *)
NoHandshake ==
    [auth |-> Undefined, query |-> Undefined, cookie |-> Undefined,
     authorization |-> Undefined]

(* String.prototype.startsWith and String.prototype.substring(n) *)
startsWith(s, p) == Len(s) >= Len(p) /\ SubSeq(s, 1, Len(p)) = p

substring(s, n) == SubSeq(s, n + 1, Len(s))

(* cookies.match(/token=([^;]+)/): the leftmost position at or after i     *)
(* where 'token=' is followed by a character other than ';', 0 for null    *)
RECURSIVE match(_, _)
match(s, i) ==
    IF i + Len(TokenEq) > Len(s) THEN 0
    ELSE IF /\ SubSeq(s, i, i + Len(TokenEq) - 1) = TokenEq
            /\ s[i + Len(TokenEq)] # ";"
         THEN i
         ELSE match(s, i + 1)

(* tokenMatch[1]: the greedy run [^;]+ that starts at j *)
RECURSIVE group(_, _)
group(s, j) ==
    IF j > Len(s) \/ s[j] = ";" THEN << >>
    ELSE <<s[j]>> \o group(s, j + 1)

(* the results of an extraction: null, or a token *)
null == [found |-> FALSE, token |-> << >>]

Token(s) == [found |-> TRUE, token |-> s]

(* an extraction that takes the query parameter whatever its type *)
extractTokenFromHandshake_AnyQuery(h) ==
    IF Truthy(h.auth) THEN Token(h.auth.value)
    ELSE IF Truthy(h.query) THEN Token(h.query.value)
    ELSE IF Truthy(h.cookie) /\ match(h.cookie.value, 1) # 0
    THEN Token(group(h.cookie.value, match(h.cookie.value, 1) + Len(TokenEq)))
    ELSE IF /\ Truthy(h.authorization)
            /\ startsWith(h.authorization.value, Bearer)
    THEN Token(substring(h.authorization.value, 7))
    ELSE null

(* an extraction that looks at the cookie header first *)
extractTokenFromHandshake_CookieFirst(h) ==
    IF Truthy(h.cookie) /\ match(h.cookie.value, 1) # 0
    THEN Token(group(h.cookie.value, match(h.cookie.value, 1) + Len(TokenEq)))
    ELSE IF Truthy(h.auth) THEN Token(h.auth.value)
    ELSE IF Truthy(h.query) /\ h.query.type = "string"
    THEN Token(h.query.value)
    ELSE IF /\ Truthy(h.authorization)
            /\ startsWith(h.authorization.value, Bearer)
    THEN Token(substring(h.authorization.value, 7))
    ELSE null

(* WhiteboardGateway.extractTokenFromHandshake: auth.token, then a string  *)
(* query.token, then the cookie pattern, then the Bearer header            *)
extractTokenFromHandshake(h) ==
    IF Truthy(h.auth) THEN Token(h.auth.value)
    ELSE IF Truthy(h.query) /\ h.query.type = "string"
    THEN Token(h.query.value)
    ELSE IF Truthy(h.cookie) /\ match(h.cookie.value, 1) # 0
    THEN Token(group(h.cookie.value, match(h.cookie.value, 1) + Len(TokenEq)))
    ELSE IF /\ Truthy(h.authorization)
            /\ startsWith(h.authorization.value, Bearer)
    THEN Token(substring(h.authorization.value, 7))
    ELSE null

(* a guard that does what its doc comment says: cookies first, then the    *)
(* Authorization header                                                    *)
WsJwtAuthGuard_extractTokenFromHandshake_AsDocumented(h) ==
    LET cookies == h.cookie
        authHeader == h.authorization
    IN  IF Truthy(cookies) /\ match(cookies.value, 1) # 0
        THEN Token(group(cookies.value, match(cookies.value, 1) + Len(TokenEq)))
        ELSE IF Truthy(authHeader) /\ startsWith(authHeader.value, Bearer)
        THEN Token(substring(authHeader.value, 7))
        ELSE null

(* WsJwtAuthGuard.extractTokenFromHandshake *)
WsJwtAuthGuard_extractTokenFromHandshake(h) ==
    LET queryToken == h.query
        cookies == h.cookie
        authHeader == h.authorization
        tokenMatch == IF Truthy(cookies) THEN match(cookies.value, 1) ELSE 0
    IN  IF Truthy(h.auth) THEN Token(h.auth.value)
        ELSE IF Truthy(queryToken) /\ queryToken.type = "string"
        THEN Token(queryToken.value)
        ELSE IF tokenMatch # 0
        THEN Token(group(cookies.value, tokenMatch + Len(TokenEq)))
        ELSE IF Truthy(authHeader) /\ startsWith(authHeader.value, Bearer)
        THEN Token(substring(authHeader.value, 7))
        ELSE null

----------------------------------------------------------------------------
(* the gateway after its construction *)
constructor ==
    /\ whiteboards = << >>
    /\ collaborators = {}
    /\ live = [c \in Conns |-> "new"]
    /\ dataUser = [c \in Conns |-> NoUser]
    /\ rooms = [c \in Conns |-> {}]
    /\ userRooms = << >>
    /\ tasks = << >>
    /\ out = << >>
    /\ sent = 0
    /\ replay = [pure |-> TRUE, set |-> {}]

Init ==
    /\ constructor
    /\ handshake = NoHandshake
    /\ extracted = << >>

----------------------------------------------------------------------------
(* Persistence layer, as the gateway sees it *)

(* WhiteboardsService.create: a new row owned by the caller *)
create(b, owner) ==
    /\ b \notin DOMAIN whiteboards
    /\ whiteboards' = [x \in DOMAIN whiteboards \cup {b} |->
                          IF x = b THEN owner ELSE whiteboards[x]]
    /\ out' = << >>
    /\ UNCHANGED <<handshake, extracted, collaborators, live, dataUser, rooms,
                   userRooms, tasks, sent, replay>>

(* POST /api/whiteboards/:id/collaborators (owner only, never the owner) *)
addCollaborator(b, u) ==
    /\ b \in DOMAIN whiteboards
    /\ whiteboards[b] # u
    /\ <<b, u>> \notin collaborators
    /\ collaborators' = collaborators \cup {<<b, u>>}
    /\ out' = << >>
    /\ UNCHANGED <<handshake, extracted, whiteboards, live, dataUser, rooms,
                   userRooms, tasks, sent, replay>>

(* DELETE /api/whiteboards/:id/collaborators *)
removeCollaborator(b, u) ==
    /\ <<b, u>> \in collaborators
    /\ collaborators' = collaborators \ {<<b, u>>}
    /\ out' = << >>
    /\ UNCHANGED <<handshake, extracted, whiteboards, live, dataUser, rooms,
                   userRooms, tasks, sent, replay>>

----------------------------------------------------------------------------
(* Connection lifecycle *)

(* a connection hook that always starts the user from an empty set *)
handleConnection_Reset(c) ==
    /\ live[c] = "new"
    /\ (c = "c2" => live["c1"] # "new")
    /\ \E cred \in Credentials(c) :
          IF cred = "valid"
          THEN /\ live' = [live EXCEPT ![c] = "live"]
               /\ dataUser' = [dataUser EXCEPT ![c] = tokenUser(c)]
               /\ userRooms' = MapSet(tokenUser(c), {})
          ELSE /\ live' = [live EXCEPT ![c] =
                               IF cred = "orphan" THEN "pending" ELSE "closed"]
               /\ UNCHANGED <<dataUser, userRooms>>
    /\ out' = << >>
    /\ UNCHANGED <<handshake, extracted, whiteboards, collaborators, rooms,
                   tasks, sent, replay>>

(* The transport accepts the socket and calls handleConnection: the guard  *)
(* has not run, so the handler authenticates the handshake credential      *)
(* itself.  With a valid credential it attaches the user and seeds the     *)
(* user's room set if there is none; that is taken as one step, the test   *)
(* and the seeding being on the same side of the handler's only await.     *)
(* Without a token, or with one verifyAsync rejects, authenticateClient    *)
(* returns null before any event of the socket can be dispatched and       *)
(* client.disconnect() closes the socket: the disconnect hook finds no     *)
(* user and returns.  With a token whose subject is unknown the handler    *)
(* is suspended in findById while the socket is connected.  c1 and c2 are  *)
(* the two sockets of one user and alike in everything else: c1 names the  *)
(* one that connects first.                                                *)
handleConnection(c) ==
    /\ live[c] = "new"
    /\ (c = "c2" => live["c1"] # "new")
    /\ \E cred \in Credentials(c) :
          IF cred = "valid"
          THEN /\ live' = [live EXCEPT ![c] = "live"]
               /\ dataUser' = [dataUser EXCEPT ![c] = tokenUser(c)]
               /\ userRooms' = IF Has(tokenUser(c)) THEN userRooms
                               ELSE MapSet(tokenUser(c), {})
          ELSE /\ live' = [live EXCEPT ![c] =
                               IF cred = "orphan" THEN "pending" ELSE "closed"]
               /\ UNCHANGED <<dataUser, userRooms>>
    /\ out' = << >>
    /\ UNCHANGED <<handshake, extracted, whiteboards, collaborators, rooms,
                   tasks, sent, replay>>

(* handleConnection resumes with no user from authenticateClient:          *)
(* client.disconnect(), and the disconnect hook returns at its check       *)
authenticateClient(c) ==
    /\ live[c] = "pending"
    /\ live' = [live EXCEPT ![c] = "closed"]
    /\ out' = << >>
    /\ UNCHANGED <<handshake, extracted, whiteboards, collaborators,
                   dataUser, rooms, userRooms,
                   tasks, sent, replay>>

(* a disconnect that keeps the user's entry while another socket of the    *)
(* user is connected                                                       *)
handleDisconnect_PerSocket(c) ==
    /\ live[c] = "live"
    /\ live' = [live EXCEPT ![c] = "closed"]
    /\ rooms' = [rooms EXCEPT ![c] = {}]
    /\ userRooms' = IF \E d \in Conns \ {c} :
                          live[d] = "live" /\ tokenUser(d) = dataUser[c]
                    THEN userRooms
                    ELSE MapDelete(dataUser[c])
    /\ tasks' = [t \in DOMAIN tasks |->
                   IF /\ tasks[t].implicit = "ok"
                      /\ tokenUser(c) = tokenUser(tasks[t].conn)
                   THEN [tasks[t] EXCEPT !.implicit = "undone"]
                   ELSE tasks[t]]
    /\ replay' = IF tokenUser(c) = ReplayUser
                 THEN [replay EXCEPT !.pure = FALSE] ELSE replay
    /\ out' = << >>
    /\ UNCHANGED <<handshake, extracted, whiteboards, collaborators,
                   dataUser, sent>>

(* a disconnect whose only cleanup is the hook's: the transport leaves the *)
(* socket in its rooms, and the hook leaves the rooms named by bare ids    *)
handleDisconnect_HandlerOnly(c) ==
    /\ live[c] \in {"live", "pending"}
    /\ live' = [live EXCEPT ![c] = "closed"]
    /\ rooms' = [rooms EXCEPT ![c] = @ \ Members(dataUser[c])]
    /\ userRooms' = MapDelete(dataUser[c])
    /\ tasks' = [t \in DOMAIN tasks |->
                   IF /\ tasks[t].implicit = "ok"
                      /\ tokenUser(c) = tokenUser(tasks[t].conn)
                   THEN [tasks[t] EXCEPT !.implicit = "undone"]
                   ELSE tasks[t]]
    /\ replay' = IF tokenUser(c) = ReplayUser
                 THEN [replay EXCEPT !.pure = FALSE] ELSE replay
    /\ out' = << >>
    /\ UNCHANGED <<handshake, extracted, whiteboards, collaborators,
                   dataUser, sent>>

(* a disconnect hook without the check for a missing user: it clears the   *)
(* table                                                                   *)
handleDisconnect_NoCheck(c) ==
    /\ live[c] \in {"live", "pending"}
    /\ live' = [live EXCEPT ![c] = "closed"]
    /\ rooms' = [rooms EXCEPT ![c] = {}]
    /\ userRooms' = IF dataUser[c] = NoUser THEN << >> ELSE MapDelete(dataUser[c])
    /\ tasks' = [t \in DOMAIN tasks |->
                   IF /\ tasks[t].implicit = "ok"
                      /\ tokenUser(c) = tokenUser(tasks[t].conn)
                   THEN [tasks[t] EXCEPT !.implicit = "undone"]
                   ELSE tasks[t]]
    /\ replay' = IF tokenUser(c) = ReplayUser
                 THEN [replay EXCEPT !.pure = FALSE] ELSE replay
    /\ out' = << >>
    /\ UNCHANGED <<handshake, extracted, whiteboards, collaborators,
                   dataUser, sent>>

(* The socket closes (the client goes away, or the link drops): the        *)
(* transport drops the socket from every adapter room, then emits          *)
(* 'disconnect'; handleDisconnect returns if no user is attached, else     *)
(* leaves the rooms named by the bare board ids of the user's set and      *)
(* deletes the user's entry.                                               *)
handleDisconnect(c) ==
    /\ live[c] \in {"live", "pending"}
    /\ live' = [live EXCEPT ![c] = "closed"]
    /\ LET u == dataUser[c]
           afterClose == {}
       IN  IF u = NoUser
           THEN /\ rooms' = [rooms EXCEPT ![c] = afterClose]
                /\ UNCHANGED userRooms
           ELSE /\ rooms' = [rooms EXCEPT ![c] = afterClose \ Members(u)]
                /\ userRooms' = MapDelete(u)
    /\ tasks' = [t \in DOMAIN tasks |->
                   IF /\ tasks[t].implicit = "ok"
                      /\ tokenUser(c) = tokenUser(tasks[t].conn)
                   THEN [tasks[t] EXCEPT !.implicit = "undone"]
                   ELSE tasks[t]]
    /\ replay' = IF tokenUser(c) = ReplayUser
                 THEN [replay EXCEPT !.pure = FALSE] ELSE replay
    /\ out' = << >>
    /\ UNCHANGED <<handshake, extracted, whiteboards, collaborators,
                   dataUser, sent>>

----------------------------------------------------------------------------
(* Event handlers.  A task is one invocation; user is client.data.user as  *)
(* the guard attached it, which is the user of the socket's credential.    *)
(* Four fields of a task are bookkeeping for the properties: implicit     *)
(* tells what became of the task's Join ("ok" admitted, "denied", "undone" *)
(* by a Leave or a disconnect of the same user), passed holds the peers    *)
(* that were delivered a later draw_update of the same socket and board,   *)
(* did holds what the task's Join has changed until it returns ("room":    *)
(* client.join registered the socket anew, "set": the board was added to   *)
(* the user's set anew), told holds the sockets that the Join nested in a  *)
(* draw_update handler has notified.                                       *)

userOf(t) == tokenUser(tasks[t].conn)

(* the handler returns: its invocation leaves the list *)
Finish(t) == [i \in 1 .. Len(tasks) - 1 |-> IF i < t THEN tasks[i] ELSE tasks[i + 1]]

Goto(t, p) == [tasks EXCEPT ![t].pc = p]

(* The decorators of JoinWhiteboardDto and DrawUpdateDto.  A missing       *)
(* property is the empty string; the ids of Boards are version 4 UUIDs.    *)
IsNotEmpty(v) == v # ""

IsUUID(v) == v \in Boards

(* a validation that asks for a non-empty whiteboardId and nothing else *)
validate_NotEmptyOnly(t) == IsNotEmpty(tasks[t].board)

(* a validation that takes the type annotation of updateType for a rule *)
validate_IsIn(t) ==
    /\ IsNotEmpty(tasks[t].board)
    /\ IsUUID(tasks[t].board)
    /\ tasks[t].kind = "draw" =>
          tasks[t].payload.updateType \in
              {"stroke", "rectangle", "circle", "arrow", "line", "text",
               "clear", "delete"}

(* class-validator on the payload of task t: no error.  updateType is      *)
(* held to be a non-empty string, whatever its type annotation says.       *)
validate(t) ==
    /\ IsNotEmpty(tasks[t].board)
    /\ IsUUID(tasks[t].board)
    /\ tasks[t].kind = "draw" => IsNotEmpty(tasks[t].payload.updateType)

(* A client emits join_whiteboard, leave_whiteboard or draw_update; the    *)
(* class-level WsJwtAuthGuard starts and suspends in verifyAsync/findById. *)
SubscribeMessage(c, kind, b, payload) ==
    /\ live[c] \in {"live", "pending"}
    /\ sent < MaxEvents
    /\ sent' = sent + 1
    /\ Len(tasks) < MaxTasks
    /\ tasks' = Append(tasks,
                    [conn |-> c, kind |-> kind, board |-> b, pc |-> "guard",
                     payload |-> payload, implicit |-> "-", passed |-> {},
                     did |-> {}, told |-> {}])
    /\ replay' = Replayed(tokenUser(c), kind, b)
    /\ out' = << >>
    /\ UNCHANGED <<handshake, extracted, whiteboards, collaborators, live,
                   dataUser,
                   rooms, userRooms>>

(* WsJwtAuthGuard.canActivate resumes: client.data.user = user *)
canActivate(c) == [dataUser EXCEPT ![c] = tokenUser(c)]

(* a guard that fails without closing the socket *)
UnauthorizedException_KeepOpen(t) ==
    /\ t \in DOMAIN tasks
    /\ tasks[t].pc = "guard"
    /\ userOf(t) = NoUser
    /\ tasks' = Finish(t)
    /\ out' = Direct(tasks[t].conn, [ev |-> "exception"])
    /\ UNCHANGED <<handshake, extracted, whiteboards, collaborators, live,
                   dataUser, rooms,
                   userRooms, sent, replay>>

(* WsJwtAuthGuard.canActivate finds no user for the credential:            *)
(* client.disconnect(), whose hook returns at its check, and the handler   *)
(* is never called.  The exception filter emits to a closed socket.        *)
UnauthorizedException(t) ==
    /\ t \in DOMAIN tasks
    /\ tasks[t].pc = "guard"
    /\ userOf(t) = NoUser
    /\ live' = [live EXCEPT ![tasks[t].conn] = "closed"]
    /\ tasks' = Finish(t)
    /\ out' = << >>
    /\ UNCHANGED <<handshake, extracted, whiteboards, collaborators,
                   dataUser, rooms,
                   userRooms, sent, replay>>

(* The class-level ValidationPipe runs after the guard and before the      *)
(* handler; on a validation error it throws, the handler is not called and *)
(* the exception filter answers the sender.                                *)
ValidationPipe(t) ==
    /\ t \in DOMAIN tasks
    /\ tasks[t].pc = "guard"
    /\ userOf(t) # NoUser
    /\ ~validate(t)
    /\ dataUser' = canActivate(tasks[t].conn)
    /\ tasks' = Finish(t)
    /\ out' = Direct(tasks[t].conn, [ev |-> "exception"])
    /\ UNCHANGED <<handshake, extracted, whiteboards, collaborators, live,
                   rooms, userRooms, sent, replay>>

(* handleJoinWhiteboard up to its first await: findByIdWithAccess starts *)
handleJoinWhiteboard_begin(t) ==
    /\ t \in DOMAIN tasks
    /\ tasks[t].pc = "guard"
    /\ userOf(t) # NoUser
    /\ tasks[t].kind = "join"
    /\ validate(t)
    /\ dataUser' = canActivate(tasks[t].conn)
    /\ tasks' = Goto(t, "findOne")
    /\ out' = << >>
    /\ UNCHANGED <<handshake, extracted, whiteboards, collaborators, live,
                   rooms,
                   userRooms, sent, replay>>

(* a catch block that answers every failure with the same text *)
JoinDenied_Generic(t, msg) ==
    /\ out' = Direct(tasks[t].conn,
                     [ev |-> "join_error", success |-> FALSE,
                      whiteboardId |-> tasks[t].board,
                      message |-> "Failed to join whiteboard"])
    /\ tasks' = IF tasks[t].kind = "draw"
                THEN [tasks EXCEPT ![t].pc = "size", ![t].implicit = "denied"]
                ELSE Finish(t)
    /\ UNCHANGED <<rooms, userRooms>>

(* The catch block of handleJoinWhiteboard: join_error to the sender only. *)
(* A Join nested in handleDrawUpdate returns normally to its caller.       *)
JoinDenied(t, msg) ==
    /\ out' = Direct(tasks[t].conn,
                     [ev |-> "join_error", success |-> FALSE,
                      whiteboardId |-> tasks[t].board, message |-> msg])
    /\ tasks' = IF tasks[t].kind = "draw"
                THEN [tasks EXCEPT ![t].pc = "size", ![t].implicit = "denied"]
                ELSE Finish(t)
    /\ UNCHANGED <<rooms, userRooms>>

(* The access check passed: client.join(roomName), then the await *)
JoinAdmitted(t) ==
    /\ rooms' = [rooms EXCEPT ![tasks[t].conn] = @ \cup {roomName(tasks[t].board)}]
    /\ tasks' = [tasks EXCEPT
                   ![t].pc = "joined",
                   ![t].implicit = "ok",
                   ![t].did = IF roomName(tasks[t].board) \in rooms[tasks[t].conn]
                              THEN @ ELSE @ \cup {"room"}]
    /\ out' = << >>
    /\ UNCHANGED userRooms

(* a lookup that is answered only after every lookup issued before it *)
findByIdWithAccess_InTurn(t) ==
    /\ t \in DOMAIN tasks
    /\ tasks[t].pc = "findOne"
    /\ \A x \in 1 .. t - 1 : tasks[x].pc # "findOne"
    /\ IF tasks[t].board \notin DOMAIN whiteboards
       THEN JoinDenied(t, "Whiteboard not found")
       ELSE IF whiteboards[tasks[t].board] = userOf(t)
       THEN JoinAdmitted(t)
       ELSE /\ tasks' = Goto(t, "collab")
            /\ out' = << >>
            /\ UNCHANGED <<rooms, userRooms>>
    /\ UNCHANGED <<handshake, extracted, whiteboards, collaborators, live,
                   dataUser,
                   sent, replay>>

(* findByIdWithAccess: findOne returned; the owner test of hasAccess *)
findByIdWithAccess(t) ==
    /\ t \in DOMAIN tasks
    /\ tasks[t].pc = "findOne"
    /\ IF tasks[t].board \notin DOMAIN whiteboards
       THEN JoinDenied(t, "Whiteboard not found")
       ELSE IF whiteboards[tasks[t].board] = userOf(t)
       THEN JoinAdmitted(t)
       ELSE /\ tasks' = Goto(t, "collab")
            /\ out' = << >>
            /\ UNCHANGED <<rooms, userRooms>>
    /\ UNCHANGED <<handshake, extracted, whiteboards, collaborators, live,
                   dataUser,
                   sent, replay>>

(* hasAccess that takes any lookup result, null included, for a row *)
hasAccess_AnyRow(t) ==
    /\ t \in DOMAIN tasks
    /\ tasks[t].pc = "collab"
    /\ JoinAdmitted(t)
    /\ UNCHANGED <<handshake, extracted, whiteboards, collaborators, live,
                   dataUser,
                   sent, replay>>

(* hasAccess: findCollaboratorByUserAndWhiteboard returned *)
hasAccess(t) ==
    /\ t \in DOMAIN tasks
    /\ tasks[t].pc = "collab"
    /\ IF <<tasks[t].board, userOf(t)>> \in collaborators
       THEN JoinAdmitted(t)
       ELSE JoinDenied(t, "You do not have permission to access this whiteboard")
    /\ UNCHANGED <<handshake, extracted, whiteboards, collaborators, live,
                   dataUser,
                   sent, replay>>

(* a tracking step that flips the board's presence in the set *)
handleJoinWhiteboard_track_Toggle(t) ==
    /\ t \in DOMAIN tasks
    /\ tasks[t].pc = "joined"
    /\ userRooms' = IF tasks[t].board \in Members(userOf(t))
                    THEN MapSet(userOf(t), Members(userOf(t)) \ {tasks[t].board})
                    ELSE MapSet(userOf(t), Members(userOf(t)) \cup {tasks[t].board})
    /\ tasks' = Goto(t, "tracked")
    /\ out' = << >>
    /\ UNCHANGED <<handshake, extracted, whiteboards, collaborators, live,
                   dataUser,
                   rooms, sent, replay>>

(* the tracking step that seeds a missing set but forgets the add *)
handleJoinWhiteboard_track_NoAdd(t) ==
    /\ t \in DOMAIN tasks
    /\ tasks[t].pc = "joined"
    /\ userRooms' = IF Has(userOf(t)) THEN userRooms ELSE MapSet(userOf(t), {})
    /\ tasks' = Goto(t, "tracked")
    /\ out' = << >>
    /\ UNCHANGED <<handshake, extracted, whiteboards, collaborators, live,
                   dataUser,
                   rooms, sent, replay>>

(* handleJoinWhiteboard after client.join: track the room, then the room   *)
(* size lookup suspends                                                    *)
handleJoinWhiteboard_track(t) ==
    /\ t \in DOMAIN tasks
    /\ tasks[t].pc = "joined"
    /\ userRooms' = MapSet(userOf(t), Members(userOf(t)) \cup {tasks[t].board})
    /\ tasks' = [tasks EXCEPT
                   ![t].pc = "tracked",
                   ![t].did = IF tasks[t].board \in Members(userOf(t))
                              THEN @ ELSE @ \cup {"set"}]
    /\ out' = << >>
    /\ UNCHANGED <<handshake, extracted, whiteboards, collaborators, live,
                   dataUser,
                   rooms, sent, replay>>

(* a Join that answers the sender and tells the room nothing *)
handleJoinWhiteboard_notify_Silent(t) ==
    /\ t \in DOMAIN tasks
    /\ tasks[t].pc = "tracked"
    /\ out' = Direct(tasks[t].conn,
                     [ev |-> "joined_whiteboard", success |-> TRUE,
                      whiteboardId |-> tasks[t].board,
                      message |-> "Successfully joined whiteboard"])
    /\ tasks' = IF tasks[t].kind = "draw"
                THEN [tasks EXCEPT
                        ![t].pc = "size",
                        ![t].did = {},
                        ![t].told =
                            (IF live[tasks[t].conn] = "live"
                             THEN {tasks[t].conn} ELSE {})]
                ELSE Finish(t)
    /\ UNCHANGED <<handshake, extracted, whiteboards, collaborators, live,
                   dataUser, rooms, userRooms, sent, replay>>

(* a notification that is sent to the whole room, the joiner included *)
handleJoinWhiteboard_notify_Echo(t) ==
    /\ t \in DOMAIN tasks
    /\ tasks[t].pc = "tracked"
    /\ out' = Direct(tasks[t].conn,
                     [ev |-> "joined_whiteboard", success |-> TRUE,
                      whiteboardId |-> tasks[t].board,
                      message |-> "Successfully joined whiteboard"])
              \o [i \in 1 .. Len(InOrder(BroadcastTargets_WithSender(tasks[t].conn, roomName(tasks[t].board)))) |->
                     [to |-> InOrder(BroadcastTargets_WithSender(tasks[t].conn, roomName(tasks[t].board)))[i],
                      ev |-> "user_joined", userId |-> userOf(t),
                      whiteboardId |-> tasks[t].board]]
    /\ tasks' = IF tasks[t].kind = "draw"
                THEN [tasks EXCEPT
                        ![t].pc = "size",
                        ![t].did = {},
                        ![t].told =
                            (IF live[tasks[t].conn] = "live"
                             THEN {tasks[t].conn} ELSE {})
                            \cup BroadcastTargets(tasks[t].conn,
                                                  roomName(tasks[t].board))]
                ELSE Finish(t)
    /\ UNCHANGED <<handshake, extracted, whiteboards, collaborators, live,
                   dataUser,
                   rooms, userRooms, sent, replay>>

(* handleJoinWhiteboard: joined_whiteboard to the sender, user_joined to   *)
(* the others in the room                                                  *)
handleJoinWhiteboard_notify(t) ==
    /\ t \in DOMAIN tasks
    /\ tasks[t].pc = "tracked"
    /\ out' = Direct(tasks[t].conn,
                     [ev |-> "joined_whiteboard", success |-> TRUE,
                      whiteboardId |-> tasks[t].board,
                      message |-> "Successfully joined whiteboard"])
              \o Broadcast(tasks[t].conn, roomName(tasks[t].board),
                     [ev |-> "user_joined", userId |-> userOf(t),
                      whiteboardId |-> tasks[t].board])
    /\ tasks' = IF tasks[t].kind = "draw"
                THEN [tasks EXCEPT
                        ![t].pc = "size",
                        ![t].did = {},
                        ![t].told =
                            (IF live[tasks[t].conn] = "live"
                             THEN {tasks[t].conn} ELSE {})
                            \cup BroadcastTargets(tasks[t].conn,
                                                  roomName(tasks[t].board))]
                ELSE Finish(t)
    /\ UNCHANGED <<handshake, extracted, whiteboards, collaborators, live,
                   dataUser,
                   rooms, userRooms, sent, replay>>

(* a draw_update handler that checks the access on every event *)
handleDrawUpdate_begin_AlwaysChecks(t) ==
    /\ t \in DOMAIN tasks
    /\ tasks[t].pc = "guard"
    /\ userOf(t) # NoUser
    /\ tasks[t].kind = "draw"
    /\ validate(t)
    /\ dataUser' = canActivate(tasks[t].conn)
    /\ tasks' = Goto(t, "findOne")
    /\ out' = << >>
    /\ UNCHANGED <<handshake, extracted, whiteboards, collaborators, live,
                   rooms, userRooms, sent, replay>>

(* a draw_update handler that enters a missing board in the set by itself *)
handleDrawUpdate_begin_Trusting(t) ==
    /\ t \in DOMAIN tasks
    /\ tasks[t].pc = "guard"
    /\ userOf(t) # NoUser
    /\ tasks[t].kind = "draw"
    /\ validate(t)
    /\ dataUser' = canActivate(tasks[t].conn)
    /\ userRooms' = MapSet(userOf(t), Members(userOf(t)) \cup {tasks[t].board})
    /\ tasks' = Goto(t, "size")
    /\ out' = << >>
    /\ UNCHANGED <<handshake, extracted, whiteboards, collaborators, live,
                   rooms, sent, replay>>

(* The catch block of handleJoinWhiteboard after the access check passed:  *)
(* an emit of the notifications threw (a transport error), the one of      *)
(* joined_whiteboard or, with the sender acked, the one of user_joined.    *)
(* join_error goes to the sender; nothing the Join did is taken back.      *)
handleJoinWhiteboard_catch(t, acked) ==
    /\ t \in DOMAIN tasks
    /\ tasks[t].pc = "tracked"
    /\ out' = (IF acked
               THEN Direct(tasks[t].conn,
                      [ev |-> "joined_whiteboard", success |-> TRUE,
                       whiteboardId |-> tasks[t].board,
                       message |-> "Successfully joined whiteboard"])
               ELSE << >>)
              \o Direct(tasks[t].conn,
                     [ev |-> "join_error", success |-> FALSE,
                      whiteboardId |-> tasks[t].board,
                      message |-> "transport error"])
    /\ tasks' = IF tasks[t].kind = "draw"
                THEN [tasks EXCEPT
                        ![t].pc = "size",
                        ![t].did = {},
                        ![t].told = IF acked /\ live[tasks[t].conn] = "live"
                                    THEN {tasks[t].conn} ELSE {}]
                ELSE Finish(t)
    /\ UNCHANGED <<handshake, extracted, whiteboards, collaborators, live,
                   dataUser, rooms, userRooms, sent, replay>>

(* handleDrawUpdate up to its first await: the membership test, and the    *)
(* nested handleJoinWhiteboard when the board is not in the user's set     *)
handleDrawUpdate_begin(t) ==
    /\ t \in DOMAIN tasks
    /\ tasks[t].pc = "guard"
    /\ userOf(t) # NoUser
    /\ tasks[t].kind = "draw"
    /\ validate(t)
    /\ dataUser' = canActivate(tasks[t].conn)
    /\ tasks' = IF tasks[t].board \in Members(userOf(t))
                THEN Goto(t, "size")
                ELSE Goto(t, "findOne")
    /\ out' = << >>
    /\ UNCHANGED <<handshake, extracted, whiteboards, collaborators, live,
                   rooms,
                   userRooms, sent, replay>>

(* a relay body tagged with the socket id in place of the user id *)
DrawBody_SocketId(t) ==
    [ev |-> "draw_update", whiteboardId |-> tasks[t].board,
     updateType |-> tasks[t].payload.updateType,
     data |-> tasks[t].payload.data, userId |-> tasks[t].conn]

(* the body of the relayed draw_update *)
DrawBody(t) ==
    [ev |-> "draw_update", whiteboardId |-> tasks[t].board,
     updateType |-> tasks[t].payload.updateType,
     data |-> tasks[t].payload.data, userId |-> userOf(t)]

(* task t returns after its relay: the draw_update handlers of the same   *)
(* socket and board that were invoked before it and are still in flight    *)
(* note the peers the relay reached                                        *)
Overtake(t) ==
    [x \in 1 .. Len(tasks) - 1 |->
        IF /\ x < t
           /\ tasks[x].kind = "draw"
           /\ tasks[x].conn = tasks[t].conn
           /\ tasks[x].board = tasks[t].board
        THEN [tasks[x] EXCEPT !.passed =
                 @ \cup BroadcastTargets(tasks[t].conn, roomName(tasks[t].board))]
        ELSE Finish(t)[x]]

(* a relay that reports an empty room to the sender as a failure *)
handleDrawUpdate_relay_EmptyIsError(t) ==
    /\ t \in DOMAIN tasks
    /\ tasks[t].pc = "size"
    /\ out' = IF BroadcastTargets(tasks[t].conn, roomName(tasks[t].board)) = {}
              THEN Direct(tasks[t].conn,
                     [ev |-> "draw_update_error", success |-> FALSE,
                      whiteboardId |-> tasks[t].board,
                      message |-> "Failed to broadcast drawing update"])
              ELSE Broadcast(tasks[t].conn, roomName(tasks[t].board), DrawBody(t))
    /\ tasks' = Overtake(t)
    /\ UNCHANGED <<handshake, extracted, whiteboards, collaborators, live,
                   dataUser,
                   rooms, userRooms, sent, replay>>

(* handleDrawUpdate after the room size lookup: the relay *)
handleDrawUpdate_relay(t) ==
    /\ t \in DOMAIN tasks
    /\ tasks[t].pc = "size"
    /\ out' = Broadcast(tasks[t].conn, roomName(tasks[t].board), DrawBody(t))
    /\ tasks' = Overtake(t)
    /\ UNCHANGED <<handshake, extracted, whiteboards, collaborators, live,
                   dataUser,
                   rooms, userRooms, sent, replay>>

(* an error report that goes to the whole room *)
handleDrawUpdate_catch_ToRoom(t) ==
    /\ t \in DOMAIN tasks
    /\ tasks[t].pc = "size"
    /\ out' = Broadcast(tasks[t].conn, roomName(tasks[t].board),
                     [ev |-> "draw_update_error", success |-> FALSE,
                      whiteboardId |-> tasks[t].board,
                      message |-> "Failed to broadcast drawing update"])
    /\ tasks' = Finish(t)
    /\ UNCHANGED <<handshake, extracted, whiteboards, collaborators, live,
                   dataUser,
                   rooms, userRooms, sent, replay>>

(* The catch block of handleDrawUpdate: the emit of the relay threw (a     *)
(* transport error), and draw_update_error goes to the sender.             *)
handleDrawUpdate_catch(t) ==
    /\ t \in DOMAIN tasks
    /\ tasks[t].pc = "size"
    /\ out' = Direct(tasks[t].conn,
                     [ev |-> "draw_update_error", success |-> FALSE,
                      whiteboardId |-> tasks[t].board,
                      message |-> "Failed to broadcast drawing update"])
    /\ tasks' = Finish(t)
    /\ UNCHANGED <<handshake, extracted, whiteboards, collaborators, live,
                   dataUser,
                   rooms, userRooms, sent, replay>>

(* a Leave step of user u for board b undoes a self-heal in flight *)
Undo(ts, u, b) ==
    [x \in DOMAIN ts |->
        IF /\ ts[x].implicit = "ok"
           /\ ts[x].board = b
           /\ tokenUser(ts[x].conn) = u
        THEN [ts[x] EXCEPT !.implicit = "undone"]
        ELSE ts[x]]

(* handleLeaveWhiteboard up to its await: client.leave(roomName) *)
handleLeaveWhiteboard_begin(t) ==
    /\ t \in DOMAIN tasks
    /\ tasks[t].pc = "guard"
    /\ userOf(t) # NoUser
    /\ tasks[t].kind = "leave"
    /\ validate(t)
    /\ dataUser' = canActivate(tasks[t].conn)
    /\ rooms' = [rooms EXCEPT ![tasks[t].conn] = @ \ {roomName(tasks[t].board)}]
    /\ tasks' = Undo(Goto(t, "left"), userOf(t), tasks[t].board)
    /\ out' = << >>
    /\ UNCHANGED <<handshake, extracted, whiteboards, collaborators, live,
                   userRooms,
                   sent, replay>>

(* handleLeaveWhiteboard after the await: untrack, user_left to the room,  *)
(* left_whiteboard to the sender                                           *)
handleLeaveWhiteboard_finish(t) ==
    /\ t \in DOMAIN tasks
    /\ tasks[t].pc = "left"
    /\ userRooms' = IF Has(userOf(t))
                    THEN MapSet(userOf(t), userRooms[userOf(t)] \ {tasks[t].board})
                    ELSE userRooms
    /\ out' = Broadcast(tasks[t].conn, roomName(tasks[t].board),
                     [ev |-> "user_left", userId |-> userOf(t),
                      whiteboardId |-> tasks[t].board])
              \o Direct(tasks[t].conn,
                     [ev |-> "left_whiteboard", success |-> TRUE,
                      whiteboardId |-> tasks[t].board,
                      message |-> "Successfully left whiteboard"])
    /\ tasks' = Undo(Finish(t), userOf(t), tasks[t].board)
    /\ UNCHANGED <<handshake, extracted, whiteboards, collaborators, live,
                   dataUser,
                   rooms, sent, replay>>

----------------------------------------------------------------------------
(* The steps of the gateway when the sockets of C are the ones that open a *)
(* connection.                                                             *)
Step(C) ==
    \/ \E b \in Boards, u \in Creators : create(b, u)
    \/ \E p \in Invitable : addCollaborator(p[1], p[2])
    \/ \E p \in Invitable : removeCollaborator(p[1], p[2])
    \/ \E c \in C : handleConnection(c)
    \/ \E c \in C : handleDisconnect(c)
    \/ \E c \in C, b \in Boards : SubscribeMessage(c, "join", b, NoPayload)
    \/ \E c \in C, b \in Boards : SubscribeMessage(c, "leave", b, NoPayload)
    \/ \E c \in C, b \in Boards, p \in DrawPayloads :
            SubscribeMessage(c, "draw", b, p)
    \/ \E t \in TaskIds : handleJoinWhiteboard_begin(t)
    \/ \E t \in TaskIds : findByIdWithAccess(t)
    \/ \E t \in TaskIds : hasAccess(t)
    \/ \E t \in TaskIds : handleJoinWhiteboard_track(t)
    \/ \E t \in TaskIds : handleJoinWhiteboard_notify(t)
    \/ \E t \in TaskIds : handleDrawUpdate_begin(t)
    \/ \E t \in TaskIds : handleDrawUpdate_relay(t)
    \/ \E t \in TaskIds : handleDrawUpdate_catch(t)
    \/ \E t \in TaskIds : handleLeaveWhiteboard_begin(t)
    \/ \E t \in TaskIds : handleLeaveWhiteboard_finish(t)

(* Every socket that connects holds a valid credential: two sockets of u1  *)
(* and one of u2.                                                          *)
Next == Step(Known)

Spec == Init /\ [][Next]_vars

(* A socket without a valid credential is among those that connect, next   *)
(* to one socket of each user: the steps above, and the two that reject    *)
(* the socket.                                                             *)
NextAuth ==
    \/ Step(Mixed)
    \/ \E c \in Mixed : authenticateClient(c)
    \/ \E t \in TaskIds : UnauthorizedException(t)

SpecAuth == Init /\ [][NextAuth]_vars

(* One socket of each user. *)
Pair == {"c1", "c3"}

(* The steps of the clients, the sockets and the REST service. *)
Environment(C) ==
    \/ \E b \in Boards, u \in Creators : create(b, u)
    \/ \E p \in Invitable : addCollaborator(p[1], p[2])
    \/ \E p \in Invitable : removeCollaborator(p[1], p[2])
    \/ \E c \in C : handleConnection(c)
    \/ \E c \in C : handleDisconnect(c)
    \/ \E c \in C, b \in Boards : SubscribeMessage(c, "join", b, NoPayload)
    \/ \E c \in C, b \in Boards : SubscribeMessage(c, "leave", b, NoPayload)
    \/ \E c \in C, b \in Boards, p \in DrawPayloads :
            SubscribeMessage(c, "draw", b, p)

(* handleJoinWhiteboard of socket c1 is suspended in findByIdWithAccess *)
Suspended(t) ==
    /\ t \in DOMAIN tasks
    /\ tasks[t].conn = "c1"
    /\ tasks[t].kind = "join"
    /\ tasks[t].pc = "findOne"

(* The access lookup of a suspended handler never returns; every other     *)
(* continuation is run by the event loop once its await has resolved.      *)
Resume(t) ==
    \/ handleJoinWhiteboard_begin(t)
    \/ ~Suspended(t) /\ findByIdWithAccess(t)
    \/ hasAccess(t)
    \/ handleJoinWhiteboard_track(t)
    \/ handleJoinWhiteboard_notify(t)
    \/ handleDrawUpdate_begin(t)
    \/ handleDrawUpdate_relay(t)
    \/ handleDrawUpdate_catch(t)
    \/ handleLeaveWhiteboard_begin(t)
    \/ handleLeaveWhiteboard_finish(t)

NextStall == Environment(Pair) \/ \E t \in TaskIds : Resume(t)

(* The event loop runs every continuation that stays ready. *)
SpecStall ==
    /\ Init
    /\ [][NextStall]_vars
    /\ \A t \in TaskIds : WF_vars(Resume(t))

(* Envelopes that the clients of the other specifications never send: a    *)
(* whiteboardId that is missing or is no UUID, an updateType that is       *)
(* missing, and an updateType outside the type annotation.                 *)
BadIds == {"", "not-a-uuid"}

OddPayloads ==
    {[updateType |-> "", data |-> "shape1"],
     [updateType |-> "sticker", data |-> "shape1"]}

NextEnvelope ==
    \/ Step(Pair)
    \/ \E c \in Pair, b \in BadIds : SubscribeMessage(c, "join", b, NoPayload)
    \/ \E c \in Pair, b \in BadIds : SubscribeMessage(c, "leave", b, NoPayload)
    \/ \E c \in Pair, b \in BadIds, p \in DrawPayloads \cup OddPayloads :
            SubscribeMessage(c, "draw", b, p)
    \/ \E c \in Pair, b \in Boards, p \in OddPayloads :
            SubscribeMessage(c, "draw", b, p)
    \/ \E t \in TaskIds : ValidationPipe(t)

SpecEnvelope == Init /\ [][NextEnvelope]_vars

(* The transport may raise an error where handleJoinWhiteboard emits its   *)
(* notifications.                                                          *)
NextFault ==
    \/ Step(Pair)
    \/ \E t \in TaskIds, acked \in BOOLEAN : handleJoinWhiteboard_catch(t, acked)

SpecFault == Init /\ [][NextFault]_vars

(* A socket opens with any of the handshakes; authenticateClient and the   *)
(* guard each extract its token.                                           *)
InitHandshake ==
    /\ constructor
    /\ handshake \in Handshakes
    /\ extracted = << >>

(* authenticateClient: const token = this.extractTokenFromHandshake(client) *)
authenticateClient_extract ==
    /\ "gateway" \notin DOMAIN extracted
    /\ extracted' = extracted @@ ("gateway" :> extractTokenFromHandshake(handshake))
    /\ UNCHANGED <<whiteboards, collaborators, live, dataUser, rooms,
                   userRooms, tasks, out, sent, replay, handshake>>

(* canActivate: const token = this.extractTokenFromHandshake(client) *)
canActivate_extract ==
    /\ "guard" \notin DOMAIN extracted
    /\ extracted' = extracted @@
            ("guard" :> WsJwtAuthGuard_extractTokenFromHandshake(handshake))
    /\ UNCHANGED <<whiteboards, collaborators, live, dataUser, rooms,
                   userRooms, tasks, out, sent, replay, handshake>>

NextHandshake == authenticateClient_extract \/ canActivate_extract

SpecHandshake == InitHandshake /\ [][NextHandshake]_vars

----------------------------------------------------------------------------
(* Vocabulary of the properties *)

(* a task without its bookkeeping fields *)
Shape(x) ==
    [conn |-> x.conn, kind |-> x.kind, board |-> x.board, pc |-> x.pc,
     payload |-> x.payload]

(* task t is the handler that takes the step: it returns, or it moves on *)
Stepped(t) ==
    /\ t \in DOMAIN tasks
    /\ \/ /\ Len(tasks') = Len(tasks) - 1
          /\ \A x \in DOMAIN tasks' : Shape(tasks'[x]) = Shape(Finish(t)[x])
       \/ /\ Len(tasks') = Len(tasks)
          /\ tasks'[t].pc # tasks[t].pc

(* the access check of task t is about to return a verdict other than      *)
(* Allowed: NotFound from findOne, Forbidden from the collaborator lookup  *)
DenialDue(t) ==
    \/ tasks[t].pc = "findOne" /\ tasks[t].board \notin DOMAIN whiteboards
    \/ tasks[t].pc = "collab" /\ <<tasks[t].board, userOf(t)>> \notin collaborators

(* the sockets of user u, and the connected sockets registered for board b *)
SocketsOf(u) == { c \in Conns : tokenUser(c) = u }

Registered(b) == { c \in Conns : live[c] = "live" /\ roomName(b) \in rooms[c] }

Events(ev) == { i \in DOMAIN out : out[i].ev = ev }

----------------------------------------------------------------------------
(* C1: a Join whose access check does not return Allowed registers nothing: *)
(* the step that receives the denial leaves every room registration and    *)
(* the whole membership table as they were and delivers no user_joined.    *)
C1_DeniedJoinAdmitsNothing ==
    [][\A t \in DOMAIN tasks :
          (DenialDue(t) /\ Stepped(t)) =>
              /\ rooms' = rooms
              /\ userRooms' = userRooms
              /\ \A i \in DOMAIN out' : out'[i].ev # "user_joined"]_vars

(* a Forbidden join has just been answered: join_error went to u2's socket *)
(* and the socket is in no room                                            *)
C1_Witness ==
    /\ \E i \in DOMAIN out :
          /\ out[i].ev = "join_error"
          /\ out[i].to = "c3"
          /\ out[i].message = "You do not have permission to access this whiteboard"
    /\ rooms["c3"] = {}
    /\ tasks = << >>
    /\ Registered("b1") # {}

(* the sender of task t is neither the owner nor a collaborator of the     *)
(* board of t, or there is no such board                                   *)
NoAccess(t) ==
    \/ tasks[t].board \notin DOMAIN whiteboards
    \/ /\ whiteboards[tasks[t].board] # userOf(t)
       /\ <<tasks[t].board, userOf(t)>> \notin collaborators

(* C2: a draw_update whose implicit Join was denied, and whose sender is   *)
(* still without access when the handler goes on, is delivered to no       *)
(* connection.                                                             *)
C2_DeniedDrawNotRelayed ==
    [][\A t \in DOMAIN tasks :
          (/\ tasks[t].pc = "size"
           /\ tasks[t].implicit = "denied"
           /\ NoAccess(t)
           /\ Stepped(t))
              => \A i \in DOMAIN out' : out'[i].ev # "draw_update"]_vars

(* C3: the relay of a draw_update never delivers the draw_update to the    *)
(* socket that sent it.                                                    *)
C3_RelaySkipsSender ==
    [][\A t \in DOMAIN tasks :
          (tasks[t].pc = "size" /\ Stepped(t)) =>
              \A i \in DOMAIN out' :
                  out'[i].ev = "draw_update" => out'[i].to # tasks[t].conn]_vars

(* u2's socket is in the room with two others and its draw_update has just *)
(* been delivered to both                                                  *)
C3_Witness ==
    /\ Registered("b1") = {"c1", "c2", "c3"}
    /\ Events("draw_update") # {}
    /\ \A i \in Events("draw_update") : out[i].userId = "u2"
    /\ { out[i].to : i \in Events("draw_update") } = {"c1", "c2"}

(* C4: when a member's draw_update is relayed, the transport raising no    *)
(* error, every other connected socket registered in the board's room is   *)
(* delivered exactly one draw_update with the sender's user id and the     *)
(* board, updateType and data that were sent; no other socket is delivered *)
(* anything.                                                               *)
C4_RelayReachesRoomOnce ==
    [][\A t \in DOMAIN tasks :
          (/\ tasks[t].pc = "size"
           /\ tasks[t].board \in Members(userOf(t))
           /\ handleDrawUpdate_relay(t)) =>
              LET peers == Registered(tasks[t].board) \ {tasks[t].conn}
              IN  /\ \A d \in peers :
                        Cardinality({ i \in DOMAIN out' : out'[i].to = d }) = 1
                  /\ \A i \in DOMAIN out' :
                        /\ out'[i].to \in peers
                        /\ out'[i].ev = "draw_update"
                        /\ out'[i].userId = userOf(t)
                        /\ out'[i].whiteboardId = tasks[t].board
                        /\ out'[i].updateType = tasks[t].payload.updateType
                        /\ out'[i].data = tasks[t].payload.data]_vars

(* u1 is a member with both sockets open, only c2 and c3 are in the room,  *)
(* and c2's relay has just reached c3 alone                                *)
C4_Witness ==
    /\ "b1" \in Members("u1")
    /\ Registered("b1") = {"c2", "c3"}
    /\ live["c1"] = "live"
    /\ Len(out) = 1
    /\ out[1].ev = "draw_update"
    /\ out[1].userId = "u1"
    /\ out[1].to = "c3"

(* the self-heal of task t: its draw_update found the board missing from   *)
(* the user's set and its implicit Join was admitted                       *)
Healed(t) == tasks[t].pc = "size" /\ tasks[t].implicit \in {"ok", "undone"}

(* what the self-heal is to leave behind when the handler returns: the     *)
(* socket registered, the board in the user's set, the draw_update with    *)
(* every other socket of the room                                          *)
HealOutcome(t) ==
    /\ roomName(tasks[t].board) \in rooms'[tasks[t].conn]
    /\ tasks[t].board \in userRooms'[userOf(t)]
    /\ { out'[i].to : i \in DOMAIN out' }
           = Registered(tasks[t].board) \ {tasks[t].conn}
    /\ \A i \in DOMAIN out' :
          out'[i].ev = "draw_update" /\ out'[i].userId = userOf(t)

Quiet(u) == \A t \in DOMAIN tasks : userOf(t) # u

(* C6: once every join_whiteboard and leave_whiteboard of an identity has  *)
(* been handled, its membership set is the replay of those events in the   *)
(* order the client emitted them.                                          *)
C6_MembershipIsReplay ==
    (replay.pure /\ Quiet(ReplayUser)) => Members(ReplayUser) = replay.set

(* C7: when handleDisconnect has run for an authenticated socket, the      *)
(* membership table has no entry for its user, other sockets or not.       *)
C7_DisconnectDeletesEntry ==
    [][\A c \in Conns :
          (live[c] = "live" /\ live'[c] = "closed" /\ dataUser[c] # NoUser)
              => dataUser[c] \notin DOMAIN userRooms']_vars

(* c1 has gone and taken u1's entry with it while c2, the other socket of  *)
(* u1, is still connected and registered in the room                       *)
C7_Witness ==
    /\ live["c1"] = "closed"
    /\ live["c2"] = "live"
    /\ roomName("b1") \in rooms["c2"]
    /\ "u1" \notin DOMAIN userRooms
    /\ tasks = << >>

(* C8: after the only socket of a user has disconnected, no user_joined    *)
(* and no draw_update that is delivered names that user.                   *)
C8_GoneUserNeverNamed ==
    \A c \in Conns :
        (live[c] = "closed" /\ SocketsOf(tokenUser(c)) = {c}) =>
            \A i \in Events("user_joined") \cup Events("draw_update") :
                out[i].userId # tokenUser(c)

(* C9: where no handler is suspended, a board is in a user's set exactly   *)
(* when a connected socket of the user is registered in the board's room.  *)
C9_SetMirrorsRooms ==
    tasks = << >> =>
        \A u \in Users, b \in Boards :
            b \in Members(u) <=> (SocketsOf(u) \cap Registered(b) # {})

(* C10: a socket is delivered draw_update, user_joined or user_left for a  *)
(* board only while the board is in the set of the socket's user.  The     *)
(* deliveries looked at are those of a step that leaves no handler         *)
(* suspended, so that no Join of the receiver is half-way.                 *)
C10_DeliveryNeedsMembership ==
    tasks = << >> =>
        \A i \in Events("draw_update") \cup Events("user_joined")
                    \cup Events("user_left") :
            out[i].whiteboardId \in Members(tokenUser(out[i].to))

(* socket c closes in this step, whoever closed it *)
Closes(c) == live[c] # "closed" /\ live'[c] = "closed"

C12_ConnectionKeepsEntry ==
    [][\A c \in Conns :
          (live[c] = "new" /\ live'[c] # "new" /\ Has(tokenUser(c)))
              => userRooms' = userRooms]_vars

(* c1 joined b1, and the step just taken was silent: c2, the second socket *)
(* of u1, is connected and in no room, and b1 is still in u1's set         *)
C12_Witness ==
    /\ live["c1"] = "live"
    /\ live["c2"] = "live"
    /\ live["c3"] = "new"
    /\ rooms["c2"] = {}
    /\ roomName("b1") \in rooms["c1"]
    /\ "b1" \in Members("u1")
    /\ sent = 1
    /\ tasks = << >>
    /\ out = << >>

(* the credential of socket c resolves to no user *)
Stranger(c) == tokenUser(c) = NoUser

(* C13: a socket whose credential resolves to no user is never accepted    *)
(* and ends closed where the resolution fails: no user is attached to it,  *)
(* no entry is made for it, it is in no room, the guard's failure on one   *)
(* of its events closes it, and no step taken for one of its events        *)
(* changes the table or a room registration or delivers anything.          *)
C13_NoIdentityNoEffect ==
    [][\A c \in Conns :
          Stranger(c) =>
              /\ live'[c] # "live"
              /\ live[c] = "pending" => live'[c] \in {"pending", "closed"}
              /\ dataUser'[c] = NoUser
              /\ rooms'[c] = {}
              /\ DOMAIN userRooms' \subseteq Users
              /\ \A t \in DOMAIN tasks :
                    (tasks[t].conn = c /\ Stepped(t)) =>
                        /\ live'[c] = "closed"
                        /\ rooms' = rooms
                        /\ userRooms' = userRooms
                        /\ out' = << >>]_vars

(* c4 sent events while its connection hook was looking its subject up;    *)
(* it is closed now, one of its events is still waiting for the guard,     *)
(* and c1 sits in the room of b1                                           *)
C13_Witness ==
    /\ live["c4"] = "closed"
    /\ Len(tasks) = 1
    /\ tasks[1].conn = "c4"
    /\ tasks[1].kind = "draw"
    /\ tasks[1].pc = "guard"
    /\ sent = 3
    /\ Registered("b1") = {"c1"}
    /\ "b1" \in Members("u1")

(* C14: the disconnect of a socket that has no user attached leaves the    *)
(* table and the room registrations of every other socket as they were.    *)
C14_AnonymousDisconnectIsNoOp ==
    [][\A c \in Conns :
          (Closes(c) /\ dataUser[c] = NoUser) =>
              /\ userRooms' = userRooms
              /\ \A d \in Conns \ {c} : rooms'[d] = rooms[d]]_vars

(* c1 joined b1, and the step just taken was silent: c4 is closed, and     *)
(* u1's set and c1's registration are in place                             *)
C14_Witness ==
    /\ live["c4"] = "closed"
    /\ live["c3"] = "new"
    /\ Registered("b1") = {"c1"}
    /\ Members("u1") = {"b1"}
    /\ sent = 1
    /\ tasks = << >>
    /\ out = << >>

(* what an admitted Join of task t is to leave behind when the handler     *)
(* returns: the socket registered, the board in the user's set,            *)
(* joined_whiteboard with the sender alone, user_joined once with every    *)
(* other socket of the room and with no one else                           *)
JoinOutcome(t) ==
    LET c == tasks[t].conn
        b == tasks[t].board
        others == Registered(b) \ {c}
    IN  /\ roomName(b) \in rooms'[c]
        /\ userOf(t) \in DOMAIN userRooms'
        /\ b \in userRooms'[userOf(t)]
        /\ Len(out') = 1 + Cardinality(others)
        /\ out'[1].ev = "joined_whiteboard"
        /\ out'[1].to = c
        /\ out'[1].success = TRUE
        /\ out'[1].whiteboardId = b
        /\ { out'[i].to : i \in 2 .. Len(out') } = others
        /\ \A i \in 2 .. Len(out') :
              /\ out'[i].ev = "user_joined"
              /\ out'[i].userId = userOf(t)
              /\ out'[i].whiteboardId = b

(* C15 as stated: a join_whiteboard that was Allowed returns with the      *)
(* socket registered in the board's room and the board in the user's set,  *)
(* joined_whiteboard sent to the sender only and user_joined to every      *)
(* other socket of the room.                                               *)
C15_JoinAlways ==
    [][\A t \in DOMAIN tasks :
          (tasks[t].kind = "join" /\ tasks[t].pc = "tracked" /\ Stepped(t))
              => JoinOutcome(t)]_vars

(* C15, amended: the same, when the sender is still connected and no      *)
(* leave_whiteboard of the user for that board and no disconnect of a      *)
(* socket of the user was handled between the admission and the handler's  *)
(* return.                                                                 *)
C15_JoinUndisturbed ==
    [][\A t \in DOMAIN tasks :
          (/\ tasks[t].kind = "join"
           /\ tasks[t].pc = "tracked"
           /\ tasks[t].implicit = "ok"
           /\ live[tasks[t].conn] = "live"
           /\ Stepped(t)) => JoinOutcome(t)]_vars

(* u2's join has just returned: c3 got joined_whiteboard, the two sockets  *)
(* that were in the room got user_joined, and c3 is registered and tracked *)
C15_Witness ==
    /\ Len(out) = 3
    /\ out[1].ev = "joined_whiteboard" /\ out[1].to = "c3"
    /\ out[2].ev = "user_joined" /\ out[2].to = "c1" /\ out[2].userId = "u2"
    /\ out[3].ev = "user_joined" /\ out[3].to = "c2" /\ out[3].userId = "u2"
    /\ roomName("b1") \in rooms["c3"]
    /\ "b1" \in Members("u2")
    /\ tasks = << >>

(* the message of the denial that is due for task t *)
DenialMessage(t) ==
    IF tasks[t].pc = "findOne" THEN "Whiteboard not found"
    ELSE "You do not have permission to access this whiteboard"

(* C16: NotFound and Forbidden have one effect on a join_whiteboard: no    *)
(* room registration and no set changes, nothing is broadcast, and the     *)
(* sender, if still connected, is sent one join_error with success false;  *)
(* the message of that join_error tells the two verdicts apart.            *)
C16_DenialsAlike ==
    [][\A t \in DOMAIN tasks :
          (tasks[t].kind = "join" /\ DenialDue(t) /\ Stepped(t)) =>
              /\ rooms' = rooms
              /\ userRooms' = userRooms
              /\ Len(out') = IF live[tasks[t].conn] = "live" THEN 1 ELSE 0
              /\ \A i \in DOMAIN out' :
                    /\ out'[i].ev = "join_error"
                    /\ out'[i].to = tasks[t].conn
                    /\ out'[i].success = FALSE
                    /\ out'[i].whiteboardId = tasks[t].board
                    /\ out'[i].message = DenialMessage(t)
                    /\ (out'[i].message = "Whiteboard not found")
                           <=> (tasks[t].board \notin DOMAIN whiteboards)]_vars

(* c1 asked for a board that does not exist and has just been told so;     *)
(* nothing is registered and u1's set is empty                             *)
C16_Witness ==
    /\ Len(out) = 1
    /\ out[1].ev = "join_error"
    /\ out[1].to = "c1"
    /\ out[1].message = "Whiteboard not found"
    /\ DOMAIN whiteboards = {}
    /\ \A c \in Conns : rooms[c] = {}
    /\ Members("u1") = {}
    /\ tasks = << >>

(* C17: a leave_whiteboard for a board that is not in the sender's set     *)
(* changes no set and no room registration and is answered with            *)
(* left_whiteboard, success true.  The steps looked at are those of a      *)
(* Leave that is the only handler in flight.                               *)
C17_AbsentLeaveIsNoOp ==
    [][\A t \in DOMAIN tasks :
          (/\ tasks[t].kind = "leave"
           /\ Len(tasks) = 1
           /\ tasks[t].board \notin Members(userOf(t))
           /\ Stepped(t)) =>
              /\ rooms' = rooms
              /\ userRooms' = userRooms
              /\ \A i \in DOMAIN out' :
                    out'[i].to = tasks[t].conn =>
                        out'[i].ev = "left_whiteboard" /\ out'[i].success = TRUE]_vars

(* C18: join_error and draw_update_error go to the socket whose event      *)
(* failed and to no other, and the step that answers a denied Join or a    *)
(* failed relay closes no socket and leaves the room registrations of all  *)
(* other sockets as they were.                                             *)
C18_ErrorsStayLocal ==
    [][\A t \in DOMAIN tasks :
          Stepped(t) =>
              /\ \A i \in DOMAIN out' :
                    out'[i].ev \in {"join_error", "draw_update_error"}
                        => out'[i].to = tasks[t].conn
              /\ (\/ DenialDue(t)
                  \/ \E i \in DOMAIN out' : out'[i].ev = "draw_update_error") =>
                     /\ live' = live
                     /\ \A d \in Conns \ {tasks[t].conn} : rooms'[d] = rooms[d]]_vars

(* the relay of c3's draw_update failed in a room of three: c3 alone has   *)
(* just been sent draw_update_error, and all three are connected and in    *)
(* the room                                                                *)
C18_Witness ==
    /\ Len(out) = 1
    /\ out[1].ev = "draw_update_error"
    /\ out[1].to = "c3"
    /\ Registered("b1") = {"c1", "c2", "c3"}

(* C19: when the draw_update of a member is relayed to a room that holds   *)
(* the sender's socket alone, and the transport raises no error, nothing   *)
(* is delivered to anyone: no draw_update, and no draw_update_error or     *)
(* join_error to the sender, whose handler ran no Join.                    *)
C19_SoleEditorNoError ==
    [][\A t \in DOMAIN tasks :
          (/\ tasks[t].kind = "draw"
           /\ tasks[t].implicit = "-"
           /\ Registered(tasks[t].board) \subseteq {tasks[t].conn}
           /\ \/ tasks[t].pc = "guard" /\ tasks[t].board \in Members(userOf(t))
              \/ tasks[t].pc = "size" /\ handleDrawUpdate_relay(t)
           /\ Stepped(t)) => out' = << >>]_vars

(* u1 joined its board from c1 and then sent a draw_update: the handler    *)
(* found b1 in the set and is about to relay to a room c1 is alone in      *)
C19_Witness ==
    /\ sent = 2
    /\ replay.set = {"b1"}
    /\ Len(tasks) = 1
    /\ tasks[1].kind = "draw"
    /\ tasks[1].conn = "c1"
    /\ tasks[1].pc = "size"
    /\ tasks[1].implicit = "-"
    /\ Registered("b1") = {"c1"}
    /\ "b1" \in Members("u1")

(* C20: a peer that was delivered a draw_update of a socket is not         *)
(* delivered, later, a draw_update that the same socket emitted earlier    *)
(* for the same board.                                                     *)
C20_RelayInEmissionOrder ==
    [][\A t \in DOMAIN tasks :
          (tasks[t].pc = "size" /\ Stepped(t)) =>
              \A i \in DOMAIN out' :
                  out'[i].ev = "draw_update" => out'[i].to \notin tasks[t].passed]_vars

(* C21: at the step in which handleDrawUpdate emits the relay for a board, *)
(* the board is in the set of the sender's user.                           *)
C21_RelayReadsMembershipAnew ==
    [][\A t \in DOMAIN tasks :
          handleDrawUpdate_relay(t) => tasks[t].board \in Members(userOf(t))]_vars

(* C22: while handleJoinWhiteboard of c1 is suspended in an access check   *)
(* that never returns, every join, leave and draw event of another socket  *)
(* is handled to its end, and a join or a leave of a connected socket is   *)
(* answered to that socket when its handler returns.                       *)
C22_OthersNotHeldUp ==
    /\ <>[](\A t \in DOMAIN tasks : tasks[t].conn = "c1")
    /\ [][\A t \in DOMAIN tasks :
            (/\ Stepped(t)
             /\ Len(tasks') < Len(tasks)
             /\ tasks[t].conn # "c1"
             /\ tasks[t].kind \in {"join", "leave"}
             /\ live[tasks[t].conn] = "live"
             /\ \E s \in DOMAIN tasks : Suspended(s))
            => \E i \in DOMAIN out' :
                  /\ out'[i].to = tasks[t].conn
                  /\ out'[i].ev \in {"joined_whiteboard", "join_error",
                                     "left_whiteboard"}]_vars

(* the Join of c1 is suspended and the Join of c3 has just been answered *)
C22_Witness ==
    /\ \E s \in DOMAIN tasks : Suspended(s)
    /\ \E i \in DOMAIN out :
          out[i].to = "c3" /\ out[i].ev = "joined_whiteboard"

(* userRooms.get(u) read as a set after the step *)
MembersAfter(u) == IF u \in DOMAIN userRooms' THEN userRooms'[u] ELSE {}

(* C23: Join, Leave and DrawUpdate are idempotent on the membership table. *)
(* The only write of a Join (explicit, or nested in a DrawUpdate) puts the *)
(* board in the user's set and changes nothing when it is there already;   *)
(* the only write of a Leave takes the board out and changes nothing when  *)
(* it is absent; a DrawUpdate that finds the board in the set runs no Join;*)
(* no other handler step writes the table.  So the second of two equal     *)
(* events handled in a row leaves the table as the first one left it.      *)
C23_HandlersIdempotent ==
    [][\A t \in DOMAIN tasks :
          Stepped(t) =>
            /\ tasks[t].pc = "joined" =>
                 /\ tasks[t].board \in MembersAfter(userOf(t))
                 /\ tasks[t].board \in Members(userOf(t)) => userRooms' = userRooms
            /\ tasks[t].pc = "left" =>
                 /\ tasks[t].board \notin MembersAfter(userOf(t))
                 /\ tasks[t].board \notin Members(userOf(t)) => userRooms' = userRooms
            /\ tasks[t].pc \notin {"joined", "left"} => userRooms' = userRooms
            /\ (/\ tasks[t].pc = "guard"
                /\ tasks[t].kind = "draw"
                /\ tasks[t].board \in Members(userOf(t)))
               => tasks'[t].pc = "size"]_vars

(* two handlers of the same join_whiteboard of c1 have both tracked b1 *)
C23_Witness ==
    /\ Len(tasks) = 2
    /\ \A t \in DOMAIN tasks :
          /\ tasks[t].conn = "c1"
          /\ tasks[t].kind = "join"
          /\ tasks[t].board = "b1"
          /\ tasks[t].pc = "tracked"
    /\ Members("u1") = {"b1"}

(* What each source of handshake h offers, as a sequence of at most one    *)
(* token: a non-empty string in the field, the cookie pattern, the prefix. *)
AuthOffer(h) ==
    IF h.auth.type = "string" /\ Len(h.auth.value) > 0
    THEN <<h.auth.value>> ELSE << >>

QueryOffer(h) ==
    IF h.query.type = "string" /\ Len(h.query.value) > 0
    THEN <<h.query.value>> ELSE << >>

CookieOffer(h) ==
    LET s == h.cookie.value
        P == { i \in 1 .. Len(s) :
                 /\ i + 6 <= Len(s)
                 /\ \A k \in 1 .. 6 : s[i + k - 1] = TokenEq[k]
                 /\ s[i + 6] # ";" }
    IN  IF P = {} THEN << >>
        ELSE LET i == CHOOSE x \in P : \A y \in P : x <= y
                 e == CHOOSE x \in i + 6 .. Len(s) :
                         /\ \A k \in i + 6 .. x : s[k] # ";"
                         /\ x = Len(s) \/ s[x + 1] = ";"
             IN  << [k \in 1 .. e - i - 5 |-> s[i + 5 + k]] >>

BearerOffer(h) ==
    LET s == h.authorization.value
    IN  IF Len(s) >= 7 /\ \A k \in 1 .. 7 : s[k] = Bearer[k]
        THEN << [k \in 1 .. Len(s) - 7 |-> s[k + 7]] >>
        ELSE << >>

Offers(h) == AuthOffer(h) \o QueryOffer(h) \o CookieOffer(h) \o BearerOffer(h)

MalformedEvent(t) ==
    \/ tasks[t].board \in BadIds
    \/ tasks[t].kind = "draw" /\ tasks[t].payload.updateType = ""

(* C26: an event with a malformed envelope is rejected before its handler  *)
(* runs: the invocation ends at once, no membership set and no room        *)
(* registration changes, nothing is sent to another socket, and the        *)
(* sender's connection stays as it was.                                    *)
C26_MalformedEventRejected ==
    [][\A t \in DOMAIN tasks :
          (/\ Stepped(t)
           /\ userOf(t) # NoUser
           /\ MalformedEvent(t))
          => /\ Len(tasks') < Len(tasks)
             /\ userRooms' = userRooms
             /\ rooms' = rooms
             /\ live' = live
             /\ \A i \in DOMAIN out' : out'[i].to = tasks[t].conn]_vars

(* a malformed event of c3 has been rejected while c1 is in the room, and  *)
(* c3 is still connected                                                   *)
C26_Witness ==
    /\ out = << [to |-> "c3", ev |-> "exception"] >>
    /\ live["c3"] = "live"
    /\ roomName("b1") \in rooms["c1"]

(* the update types of the type annotation of DrawUpdateDto.updateType *)
Recognized ==
    {"stroke", "rectangle", "circle", "arrow", "line", "text", "clear",
     "delete"}

(* C27: a draw_update whose updateType is a string outside the recognized  *)
(* ones is accepted (its handler runs) and is relayed to each of the other *)
(* connected sockets of the room once, with the updateType it came with.   *)
C27_UnrecognizedTypeRelayed ==
    [][\A t \in DOMAIN tasks :
          (/\ tasks[t].kind = "draw"
           /\ tasks[t].board \in Boards
           /\ tasks[t].payload.updateType \notin Recognized \cup {""})
          => /\ (Stepped(t) /\ tasks[t].pc = "guard")
                   => Len(tasks') = Len(tasks)
             /\ handleDrawUpdate_relay(t)
                   => /\ \A d \in BroadcastTargets(tasks[t].conn,
                                                  roomName(tasks[t].board)) :
                            Cardinality({ i \in DOMAIN out' :
                                /\ out'[i].to = d
                                /\ out'[i].ev = "draw_update"
                                /\ out'[i].updateType = tasks[t].payload.updateType
                                /\ out'[i].data = tasks[t].payload.data }) = 1
                      /\ \A i \in DOMAIN out' :
                            out'[i].updateType = tasks[t].payload.updateType]_vars

(* c3 has been delivered a draw_update of type sticker *)
C27_Witness ==
    \E i \in DOMAIN out :
        /\ out[i].to = "c3"
        /\ out[i].ev = "draw_update"
        /\ out[i].updateType = "sticker"

(* C28: user_left naming user U for board B is delivered to the room of B  *)
(* only when B was in U's set right before the Leave wrote the table.      *)
C28_UserLeftOnlyForMembers ==
    [][\A t \in DOMAIN tasks :
          (/\ handleLeaveWhiteboard_finish(t)
           /\ \E i \in DOMAIN out' : out'[i].ev = "user_left")
          => tasks[t].board \in Members(userOf(t))]_vars

(* C30: a board enters the set of a user only by the tracking step of a    *)
(* Join (explicit, or nested in a DrawUpdate) of that user for that board  *)
(* whose access check returned Allowed before; no other step adds a board. *)
C30_AddedOnlyAfterAllowed ==
    [][\A u \in Users, b \in Boards :
          (b \in MembersAfter(u) /\ b \notin Members(u))
          => \E t \in DOMAIN tasks :
                /\ Stepped(t)
                /\ userOf(t) = u
                /\ tasks[t].board = b
                /\ tasks[t].kind \in {"join", "draw"}
                /\ tasks[t].pc = "joined"
                /\ tasks[t].implicit \in {"ok", "undone"}]_vars

(* the Join nested in a draw_update of c3 was admitted and has entered b1  *)
(* in the set of u2                                                        *)
C30_Witness ==
    /\ "b1" \in Members("u2")
    /\ \E t \in DOMAIN tasks :
          /\ tasks[t].conn = "c3"
          /\ tasks[t].kind = "draw"
          /\ tasks[t].pc = "tracked"
          /\ tasks[t].implicit = "ok"

(* C31: handleDrawUpdate checks the access only when the board is not in   *)
(* the sender's set.  A revocation leaves the sets alone; a draw_update    *)
(* of a user who has the board in the set goes to the relay without an     *)
(* access check, whatever the access tables say; and the relay of such a   *)
(* handler delivers the update to each other connected socket of the room. *)
C31_MemberDrawsUnchecked ==
    [][/\ collaborators' # collaborators => userRooms' = userRooms
       /\ \A t \in DOMAIN tasks :
            /\ (/\ Stepped(t)
                /\ tasks[t].pc = "guard"
                /\ tasks[t].kind = "draw"
                /\ tasks[t].board \in Members(userOf(t)))
               => tasks'[t].pc = "size"
            /\ (/\ handleDrawUpdate_relay(t)
                /\ tasks[t].implicit = "-")
               => \A d \in BroadcastTargets(tasks[t].conn,
                                             roomName(tasks[t].board)) :
                     \E i \in DOMAIN out' :
                        /\ out'[i].to = d
                        /\ out'[i].ev = "draw_update"
                        /\ out'[i].userId = userOf(t)]_vars

(* u2 joined b1 and lost the access since; a draw_update of c3 passed the  *)
(* membership test without a check and c1 is there to receive its relay    *)
C31_Witness ==
    /\ "b1" \in Members("u2")
    /\ <<"b1", "u2">> \notin collaborators
    /\ live["c1"] = "live"
    /\ roomName("b1") \in rooms["c1"]
    /\ \E t \in DOMAIN tasks :
          /\ tasks[t].conn = "c3"
          /\ tasks[t].kind = "draw"
          /\ tasks[t].pc = "size"
          /\ tasks[t].implicit = "-"

(* C32: user_joined naming a user for a board is delivered only by a Join  *)
(* that changed the user from non-member to member, that is, whose write   *)
(* of the membership set added the board.                                  *)
C32_UserJoinedOncePerAdmission ==
    [][\A t \in DOMAIN tasks :
          (/\ Stepped(t)
           /\ \E i \in DOMAIN out' : out'[i].ev = "user_joined")
          => "set" \in tasks[t].did]_vars

(* C33: in the self-heal path every peer that is delivered the sender's    *)
(* draw_update was delivered user_joined by the nested Join before, and a  *)
(* connected sender was delivered joined_whiteboard before the relay.      *)
C33_NotifiedBeforeRelayAlways ==
    [][\A t \in DOMAIN tasks :
          (handleDrawUpdate_relay(t) /\ tasks[t].implicit \in {"ok", "undone"})
          => /\ \A i \in DOMAIN out' :
                   out'[i].ev = "draw_update" => out'[i].to \in tasks[t].told
             /\ live[tasks[t].conn] = "live" => tasks[t].conn \in tasks[t].told]_vars

(* C33, for the peers that are in the room when the nested Join notifies:  *)
(* that step delivers user_joined naming the sender to each of them and    *)
(* joined_whiteboard to a connected sender, and relays nothing yet; the    *)
(* relay is a later step of the handler, and each peer it reaches that was *)
(* in the room at the notification was notified.                           *)
C33_NotifiedBeforeRelay ==
    [][\A t \in DOMAIN tasks :
          /\ (Stepped(t) /\ tasks[t].kind = "draw" /\ tasks[t].pc = "tracked")
             => /\ \A d \in BroadcastTargets(tasks[t].conn,
                                             roomName(tasks[t].board)) :
                      \E i \in DOMAIN out' :
                         /\ out'[i].to = d
                         /\ out'[i].ev = "user_joined"
                         /\ out'[i].userId = userOf(t)
                /\ live[tasks[t].conn] = "live"
                      => \E i \in DOMAIN out' :
                            /\ out'[i].to = tasks[t].conn
                            /\ out'[i].ev = "joined_whiteboard"
                /\ \A i \in DOMAIN out' : out'[i].ev # "draw_update"
                /\ tasks'[t].pc = "size"
                /\ tasks'[t].told =
                      { out'[i].to : i \in DOMAIN out' }
          /\ (/\ handleDrawUpdate_relay(t)
              /\ tasks[t].implicit \in {"ok", "undone"}
              /\ live[tasks[t].conn] = "live")
             => tasks[t].conn \in tasks[t].told]_vars

(* the Join nested in a draw_update of c3 has notified c3 and the peer c1; *)
(* the relay comes next                                                    *)
C33_Witness ==
    \E t \in DOMAIN tasks :
        /\ tasks[t].conn = "c3"
        /\ tasks[t].kind = "draw"
        /\ tasks[t].pc = "size"
        /\ tasks[t].implicit = "ok"
        /\ tasks[t].told = {"c1", "c3"}
        /\ live["c1"] = "live"

(* C34: whenever a Join is answered with join_error, that Join has changed *)
(* neither the user's membership set nor the socket's room registrations,  *)
(* also when the error is raised after the access check passed.            *)
C34_JoinErrorLeavesNoTrace ==
    [][\A t \in DOMAIN tasks :
          (/\ Stepped(t)
           /\ \E i \in DOMAIN out' :
                 out'[i].ev = "join_error" /\ out'[i].to = tasks[t].conn)
          => tasks[t].did = {}]_vars

(* the acknowledgements of a Join in the events of a step *)
Acks(c, o) ==
    { i \in DOMAIN o : o[i].to = c /\ o[i].ev \in {"joined_whiteboard", "join_error"} }

(* C35: a join_whiteboard whose access check has returned and whose sender *)
(* is connected is answered, when its handler returns, with exactly one of *)
(* joined_whiteboard and join_error.                                       *)
C35_ExactlyOneAck ==
    [][\A t \in DOMAIN tasks :
          (/\ Stepped(t)
           /\ tasks[t].kind = "join"
           /\ Len(tasks') < Len(tasks)
           /\ live[tasks[t].conn] = "live")
          => Cardinality(Acks(tasks[t].conn, out')) = 1]_vars

====
